---- MODULE Spec2Model ----
(***************************************************************************)
(* COZ - zero-allocation stackless coroutines (include/coz/coroutine.hpp). *)
(* The coroutine body is a token sequence of the COZ_* macros; the engine  *)
(* is the operator() generated by COZ_BEG/COZ_END, stepped one macro       *)
(* expansion at a time.                                                    *)
(***************************************************************************)
EXTENDS Integers, Sequences, FiniteSets, TLC

\* enum : unsigned { SENTINEL = ~0u }: the all-ones 32-bit pattern, written as the
\* two's-complement integer with that pattern (TLC integers are 32 bits wide)
SENTINEL == -1

\* largest parameter value given to range(i, e)
MaxVal == 3

\* number of temporaries registered with the frame layout solver
MaxRegs == 3

\* number of start/resume/destroy calls one caller makes
MaxCalls == 5

\* calls of start a lazy generator is followed through
MaxStarts == 2

\* calls of begin() and operator++ the caller of a lazy generator makes
MaxDrives == 4

(***************************************************************************)
(* Body tokens: one per statement or COZ_* macro use, in source order.     *)
(***************************************************************************)
Tok(op, id, errs, tgt, k, sz, al) ==
    [op |-> op, id |-> id, errs |-> errs, tgt |-> tgt, k |-> k, sz |-> sz, al |-> al]

\* a plain statement; errs are the errors it can raise
Stmt(id, errs) == Tok("stmt", id, errs, 0, "", 0, 0)
\* COZ_TRY { ; tgt is the position of its COZ_CATCH
TryT(c) == Tok("try", 0, {}, c, "", 0, 0)
\* } COZ_CATCH (errs) { ; tgt is the position of the handler's closing brace
CatchT(errs, e) == Tok("catch", 0, errs, e, "", 0, 0)
EndCatch == Tok("endcatch", 0, {}, 0, "", 0, 0)
\* COZ_AWAIT(expr); k is the result type of the awaiter's await_suspend
Await(k, sz, al) == Tok("await", 0, {}, 0, k, sz, al)
\* COZ_AWAIT(expr) of an awaiter whose await_resume can raise errs
AwaitThrowing(k, sz, al, errs) == Tok("await", 0, errs, 0, k, sz, al)
\* COZ_YIELD(v) of a prvalue v, and COZ_YIELD(i) of the captured lvalue i
Yield(v, sz, al) == Tok("yield", v, {}, 0, "rv", sz, al)
YieldVar(sz, al) == Tok("yield", 0, {}, 0, "lv", sz, al)
YieldLite(v) == Tok("yieldlite", v, {}, 0, "", 0, 0)
\* COZ_RETURN(v) and COZ_RETURN()
Return(v) == Tok("return", v, {}, 0, "value", 0, 0)
ReturnVoid == Tok("return", 0, {}, 0, "void", 0, 0)
\* for (; i != e; ++i) { ... }
ForTest(t) == Tok("fortest", 0, {}, t, "", 0, 0)
ForInc(t) == Tok("forinc", 0, {}, t, "", 0, 0)
End == Tok("end", 0, {}, 0, "", 0, 0)

\* auto range(int i, int e): for (; i != e; ++i) { COZ_YIELD(i); }
Range == << ForTest(4), YieldVar(8, 8), ForInc(1), End >>

\* a body without suspension points
Straight ==
    << Stmt(1, {}), TryT(4), Stmt(2, {1, 2}), CatchT({1}, 6), Stmt(3, {}),
       EndCatch, Stmt(4, {1}), End >>

\* a body without suspension points and without guarded regions
Direct == << Stmt(1, {1, 2}), Return(5) >>

\* a body without guarded regions
Plain ==
    << Stmt(1, {1}), Await("bool", 16, 8), Stmt(2, {1, 2}),
       AwaitThrowing("void", 4, 4, {1}),
       YieldLite(9), Stmt(3, {}), Return(5) >>

\* nested guarded regions with suspension points inside
Guarded ==
    << TryT(11),
         Stmt(1, {1, 2}),
         Yield(7, 4, 4),
         TryT(7),
           AwaitThrowing("bool", 16, 8, {1}),
           Stmt(2, {1, 2}),
         CatchT({1}, 9),
           Stmt(3, {2}),
         EndCatch,
         Stmt(4, {1, 2}),
       CatchT({1, 2}, 13),
         Stmt(5, {1}),
       EndCatch,
       Stmt(6, {1}),
       YieldLite(9),
       ReturnVoid >>

Bodies == << Range, Straight, Direct, Plain, Guarded >>

(***************************************************************************)
(* Ordinals handed out by __COUNTER__                                      *)
(***************************************************************************)
\* suspension macros without their z_COZ_NEW_EH label: one ordinal each
DrawsOne(t) == IF t.op \in {"await", "yield", "yieldlite", "try"} THEN 1 ELSE 0

\* uses of z_COZ_NEW_IP in one macro expansion
Draws(t) ==
    IF t.op \in {"await", "yield", "yieldlite"} THEN 2
    ELSE IF t.op = "try" THEN 1 ELSE 0

RECURSIVE Counter(_, _)
Counter(b, k) == IF k = 0 THEN 0 ELSE Counter(b, k - 1) + Draws(b[k])

\* z_COZ_NEW_IP: the first ordinal token k draws (_coz_ip, or _coz_curr_eh of a COZ_TRY)
NewIp(b, k) == Counter(b, k - 1) + 1

\* z_COZ_NEW_EH: the case label drawn right after _coz_ip
NewEh(b, k) == NewIp(b, k) + 1

\* the COZ_TRY statements whose if-else statement lexically contains position k
Enclosing(b, k) ==
    {j \in 1..(k - 1) : b[j].op = "try" /\ k <= b[b[j].tgt].tgt}

Max(S) == CHOOSE x \in S : \A y \in S : y <= x

\* _coz_curr_eh as seen at position k
CurrEh(b, k) ==
    IF Enclosing(b, k) = {} THEN SENTINEL ELSE NewIp(b, Max(Enclosing(b, k)))

\* a COZ_CATCH that forgets the enclosing region: m_eh = SENTINEL
PrevEhOutermost(b, j) == SENTINEL

\* _coz_prev_eh of the COZ_TRY at position j
PrevEh(b, j) == CurrEh(b, j)

\* the COZ_TRY a COZ_CATCH at position c belongs to
TryOf(b, c) == CHOOSE j \in 1..Len(b) : b[j].op = "try" /\ b[j].tgt = c

Suspending(b) == {k \in 1..Len(b) : b[k].op \in {"await", "yield", "yieldlite"}}

\* a switch whose unmatched values fall into case 0
DispatchDefaultStart(b, n) ==
    IF \E k \in Suspending(b) : NewIp(b, k) = n
    THEN [lbl |-> "resume", at |-> CHOOSE k \in Suspending(b) : NewIp(b, k) = n]
    ELSE IF \E k \in Suspending(b) : NewEh(b, k) = n
         THEN [lbl |-> "cleanup", at |-> CHOOSE k \in Suspending(b) : NewEh(b, k) = n]
    ELSE IF \E j \in 1..Len(b) : b[j].op = "try" /\ NewIp(b, j) = n
         THEN [lbl |-> "handler",
               at |-> b[CHOOSE j \in 1..Len(b) : b[j].op = "try" /\ NewIp(b, j) = n].tgt]
    ELSE [lbl |-> "enter", at |-> 1]

\* switch (_coz_ctx->m_next): the case label selected by n
Dispatch(b, n) ==
    IF n = 0 THEN [lbl |-> "enter", at |-> 1]
    ELSE IF \E k \in Suspending(b) : NewIp(b, k) = n
         THEN [lbl |-> "resume", at |-> CHOOSE k \in Suspending(b) : NewIp(b, k) = n]
    ELSE IF \E k \in Suspending(b) : NewEh(b, k) = n
         THEN [lbl |-> "cleanup", at |-> CHOOSE k \in Suspending(b) : NewEh(b, k) = n]
    ELSE IF \E j \in 1..Len(b) : b[j].op = "try" /\ NewIp(b, j) = n
         THEN [lbl |-> "handler",
               at |-> b[CHOOSE j \in 1..Len(b) : b[j].op = "try" /\ NewIp(b, j) = n].tgt]
    ELSE [lbl |-> "none", at |-> 0]

(***************************************************************************)
(* Frame layout solver                                                     *)
(***************************************************************************)
SizeAlign(s, a) == [size |-> s, align |-> a]

Max2(x, y) == IF x >= y THEN x ELSE y

\* unite keeping only the value registered last
uniteLast(a, b) == a

\* friend constexpr size_align unite(size_align a, size_align b)
unite(a, b) == SizeAlign(Max2(a.size, b.size), Max2(a.align, b.align))

\* the suspension points of b that register a temporary (COZ_YIELD_LITE registers none)
Registering(b) == {k \in 1..Len(b) : b[k].op \in {"await", "yield"}}

\* smp_init_state / update_size_align at each registering token up to position k
RECURSIVE smp_state(_, _)
smp_state(b, k) ==
    IF k = 0 THEN SizeAlign(0, 0)
    ELSE IF k \in Registering(b)
         THEN unite(SizeAlign(b[k].sz, b[k].al), smp_state(b, k - 1))
         ELSE smp_state(b, k - 1)

\* get_size_align over a solver seeded with a one-byte observation
get_size_align_seeded(b) == unite(SizeAlign(1, 1), smp_state(b, Len(b)))

\* get_size_align<_coz_state, SENTINEL>() at the end of the body
get_size_align(b) == smp_state(b, Len(b))

\* smp_load_state<Domain, Tick, N>(): walk up while smp_bump<Domain, N> is observed;
\* s[N + 1] is the value stored as smp_state<N, C>
RECURSIVE smp_load_state(_, _)
smp_load_state(s, N) ==
    IF N < Len(s) THEN smp_load_state(s, N + 1) ELSE [index |-> N - 1, value |-> s[N]]

\* smp_store_state<Domain, N, C>
smp_store_state(s, N, C) ==
    [k \in 1..Max2(Len(s), N + 1) |-> IF k = N + 1 THEN C ELSE s[k]]

\* update_size_align_impl<Val, Domain, Tick>()
update_size_align(s, Val) ==
    LET curr == smp_load_state(s, 0) IN
    smp_store_state(s, curr.index + 1, unite(Val, curr.value))

\* get_size_align<Domain, Tick>() over the stored states s
load_size_align(s) == smp_load_state(s, 0).value

\* sizeof and alignof of the temporaries a body can place in the scratch frame
Sizes == {1, 4, 16}
Aligns == {1, 4, 8}

(***************************************************************************)
(* State                                                                   *)
(***************************************************************************)
VARIABLES
    prog,        \* which body this coroutine runs
    st,          \* the state closure: captured arguments i, e
    state_live,  \* m_body.m_state holds a constructed State
    m_next,      \* coro_state::m_next
    m_eh,        \* coro_state::m_eh
    pc,          \* where control is: "idle" is the caller
    at,          \* body position of the control
    tmp,         \* position whose temporary occupies _coz_mem_tmp, 0 when none
    ex,          \* _coz_ex: 0 when empty
    inflight,    \* the C++ exception being thrown, 0 when none
    m_data,      \* promise: std::optional<T> m_data
    log,         \* hook calls and statements so far, in order
    started,     \* start has been called
    parked,      \* position of the suspension point the body stopped at, 0 when none
    calls,       \* the calls made so far, in order
    args,        \* the arguments start was given
    misuse,      \* resume or destroy was called on a done or finished coroutine
    outcome,     \* how the last call came back
    rethrows,    \* unhandled_exception() rethrows
    call,        \* the call in progress or last made
    handles,     \* m_ptr of the coroutine_handle objects alive at the caller
    smp,         \* the solver states stored so far: smp[N + 1] is smp_state<N, C>
    regs,        \* the size_align values registered with the solver so far
    gen          \* the generator object owning the coroutine: "none" without one

vars == << prog, st, state_live, m_next, m_eh, pc, at, tmp, ex, inflight, m_data,
           log, started, parked, calls, args, misuse, outcome, rethrows, call,
           handles, smp, regs, gen >>

\* what the engine never touches
aux == << handles, smp, regs, gen >>

\* the coroutine object and what the caller has seen of it
coro == << prog, st, state_live, m_next, m_eh, pc, at, tmp, ex, inflight, m_data,
           log, started, parked, calls, args, misuse, outcome, rethrows, call >>

Body == Bodies[prog]
Cur == Body[at]

\* a logged event: what ran, its argument, the body position, and m_next at that time
Ev(name, a, n) == [ev |-> name, a |-> a, at |-> at, next |-> n]

\* bool coroutine::done() / coroutine_handle::done()
done == m_next = SENTINEL

Count(name) == Cardinality({n \in 1..Len(log) : log[n].ev = name})

\* a coroutine object as its constructor leaves it, and what the caller has done: nothing
Fresh ==
    /\ prog \in 1..Len(Bodies)
    /\ rethrows \in BOOLEAN
    /\ st = [i |-> 0, e |-> 0]
    /\ state_live = FALSE
    /\ m_next = SENTINEL
    /\ m_eh = SENTINEL
    /\ pc = "idle"
    /\ at = 0
    /\ tmp = 0
    /\ ex = 0
    /\ inflight = 0
    /\ m_data = << >>
    /\ log = << >>
    /\ started = FALSE
    /\ parked = 0
    /\ calls = << >>
    /\ args = [i |-> 0, e |-> 0]
    /\ misuse = FALSE
    /\ outcome = "none"
    /\ call = [kind |-> "none", from |-> 0, mark |-> 0]
    /\ handles = {}
    /\ smp = << SizeAlign(0, 0) >>
    /\ regs = << >>

\* a coroutine that no generator object owns
Init == Fresh /\ gen = "none"

\* the arguments a caller passes to the body
Params ==
    IF Body = Range
    THEN {[i |-> i, e |-> e] : i \in 0..MaxVal, e \in 0..MaxVal} \
         {p \in [i : 0..MaxVal, e : 0..MaxVal] : p.i > p.e}
    ELSE {[i |-> 0, e |-> 0]}

Enter(kind) ==
    /\ pc = "idle"
    /\ Len(calls) < MaxCalls
    /\ calls' = Append(calls, kind)
    /\ misuse' = (misuse \/ (kind # "start" /\ (done \/ Count("finalize") > 0)))
    /\ call' = [kind |-> kind, from |-> parked, mark |-> Len(log)]
    /\ parked' = 0
    /\ outcome' = "none"
    /\ pc' = "switch"

\* void coroutine::start(Params&& params)
Start ==
    /\ ~started
    /\ Enter("start")
    /\ \E p \in Params : st' = p /\ args' = p
    /\ state_live' = TRUE
    /\ started' = TRUE
    /\ m_next' = 0
    /\ log' = Append(log, Ev("state_ctor", 0, m_next))
    /\ UNCHANGED << aux, prog, m_eh, at, tmp, ex, inflight, m_data, rethrows >>

\* void coroutine::resume()
Resume ==
    /\ Enter("resume")
    /\ UNCHANGED << aux, prog, st, args, state_live, m_next, m_eh, at, tmp, ex, inflight,
                    m_data, log, started, rethrows >>

\* destroy without its ++this->m_next
AdvanceNone(n) == n

\* ++this->m_next in coroutine::destroy
Advance(n) == IF n = SENTINEL THEN 0 ELSE n + 1

\* void coroutine::destroy()
Destroy ==
    /\ m_next # SENTINEL
    /\ Enter("destroy")
    /\ m_next' = Advance(m_next)
    /\ UNCHANGED << aux, prog, st, args, state_live, m_eh, at, tmp, ex, inflight, m_data,
                    log, started, rethrows >>

(***************************************************************************)
(* The engine: operator() of _coz_state, between COZ_BEG and COZ_END       *)
(***************************************************************************)
\* Switch that always selects case 0
SwitchFromStart ==
    /\ pc = "switch"
    /\ pc' = "enter" /\ at' = 1
    /\ UNCHANGED << aux, prog, st, state_live, m_next, m_eh, tmp, ex, inflight, m_data,
                    log, started, parked, calls, args, misuse, outcome, rethrows, call >>

\* _coz_retry: try { switch (_coz_ctx->m_next) { case 0:
Switch ==
    /\ pc = "switch"
    /\ LET d == Dispatch(Body, m_next) IN
         IF d.lbl = "none"
         THEN pc' = "ret" /\ at' = 0
         ELSE pc' = d.lbl /\ at' = d.at
    /\ UNCHANGED << aux, prog, st, state_live, m_next, m_eh, tmp, ex, inflight, m_data,
                    log, started, parked, calls, args, misuse, outcome, rethrows, call >>

\* a statement of the body: it completes, or raises one of its errors
ExecStmt ==
    /\ pc = "enter" /\ Cur.op = "stmt"
    /\ \/ /\ log' = Append(log, Ev("stmt", Cur.id, m_next))
          /\ at' = at + 1
          /\ UNCHANGED << pc, inflight >>
       \/ \E e \in Cur.errs :
              /\ log' = log \o << Ev("stmt", Cur.id, m_next), Ev("raise", e, m_next) >>
              /\ pc' = "catchall"
              /\ inflight' = e
              /\ UNCHANGED at
    /\ UNCHANGED << aux, prog, st, state_live, m_next, m_eh, tmp, ex, m_data, started,
                    parked, calls, args, misuse, outcome, rethrows, call >>

\* for (; i != e; ...) of range
ExecForTest ==
    /\ pc = "enter" /\ Cur.op = "fortest"
    /\ at' = IF st.i # st.e THEN at + 1 ELSE Cur.tgt
    /\ UNCHANGED << aux, prog, st, state_live, m_next, m_eh, pc, tmp, ex, inflight,
                    m_data, log, started, parked, calls, args, misuse, outcome, rethrows, call >>

\* for (...; ++i) of range
ExecForInc ==
    /\ pc = "enter" /\ Cur.op = "forinc"
    /\ st' = [st EXCEPT !.i = st.i + 1]
    /\ at' = Cur.tgt
    /\ UNCHANGED << aux, prog, state_live, m_next, m_eh, pc, tmp, ex, inflight, m_data,
                    log, started, parked, calls, args, misuse, outcome, rethrows, call >>

\* COZ_TRY: if (enum {...}; _coz_ctx->m_eh = _coz_curr_eh, true)
ExecTry ==
    /\ pc = "enter" /\ Cur.op = "try"
    /\ m_eh' = NewIp(Body, at)
    /\ at' = at + 1
    /\ UNCHANGED << aux, prog, st, state_live, m_next, pc, tmp, ex, inflight, m_data,
                    log, started, parked, calls, args, misuse, outcome, rethrows, call >>

\* the end of the block of COZ_TRY: the else branch with COZ_CATCH is skipped
LeaveTry ==
    /\ pc = "enter" /\ Cur.op = "catch"
    /\ at' = Cur.tgt + 1
    /\ UNCHANGED << aux, prog, st, state_live, m_next, m_eh, pc, tmp, ex, inflight, m_data,
                    log, started, parked, calls, args, misuse, outcome, rethrows, call >>

\* Handler rethrowing a copy: the carrier keeps its exception_ptr
HandlerKeepsEx ==
    /\ pc = "handler"
    /\ m_eh' = PrevEh(Body, TryOf(Body, at))
    /\ ex' = ex
    /\ IF ex = 0
       THEN \* release() of an empty carrier reads an object that was never constructed
            /\ pc' = "undefined"
            /\ UNCHANGED << at, log, inflight >>
       ELSE IF ex \in Cur.errs
       THEN /\ pc' = "enter"
            /\ at' = at + 1
            /\ log' = log \o << Ev("deliver", ex, m_next), Ev("caught", ex, m_next) >>
            /\ UNCHANGED inflight
       ELSE /\ pc' = "catchall"
            /\ inflight' = ex
            /\ log' = Append(log, Ev("deliver", ex, m_next))
            /\ UNCHANGED at
    /\ UNCHANGED << aux, prog, st, state_live, m_next, tmp, m_data, started, parked,
                    calls, args, misuse, outcome, rethrows, call >>

\* COZ_CATCH: case _coz_curr_eh: try { m_eh = _coz_prev_eh;
\*            std::rethrow_exception(_coz_ex.release()); } catch (...)
Handler ==
    /\ pc = "handler"
    /\ m_eh' = PrevEh(Body, TryOf(Body, at))
    /\ ex' = 0
    /\ IF ex = 0
       THEN \* release() of an empty carrier reads an object that was never constructed
            /\ pc' = "undefined"
            /\ UNCHANGED << at, log, inflight >>
       ELSE IF ex \in Cur.errs
       THEN /\ pc' = "enter"
            /\ at' = at + 1
            /\ log' = log \o << Ev("deliver", ex, m_next), Ev("caught", ex, m_next) >>
            /\ UNCHANGED inflight
       ELSE /\ pc' = "catchall"
            /\ inflight' = ex
            /\ log' = Append(log, Ev("deliver", ex, m_next))
            /\ UNCHANGED at
    /\ UNCHANGED << aux, prog, st, state_live, m_next, tmp, m_data, started, parked,
                    calls, args, misuse, outcome, rethrows, call >>

\* the closing brace of a handler
LeaveHandler ==
    /\ pc = "enter" /\ Cur.op = "endcatch"
    /\ at' = at + 1
    /\ UNCHANGED << aux, prog, st, state_live, m_next, m_eh, pc, tmp, ex, inflight,
                    m_data, log, started, parked, calls, args, misuse, outcome, rethrows, call >>

\* what p->await_suspend(coro) gave back: 1 for true, 0 for false, 2 for a void call
AwaitSuspendResult(k, r) == IF k = "bool" THEN (IF r THEN 1 ELSE 0) ELSE 2

\* suspend that drops the result of a bool await_suspend
suspendAlways(k, r) == TRUE

\* bool suspend(Expr* p, coroutine_handle<Promise> coro)
suspend(k, r) == IF k = "bool" THEN r ELSE TRUE

\* ExecAwait with ctx->m_next = ip stored before await_ready is asked
ExecAwaitStoresFirst ==
    /\ pc = "enter" /\ Cur.op = "await"
    /\ tmp' = at
    /\ m_next' = NewIp(Body, at)
    /\ \E ready \in BOOLEAN, r \in BOOLEAN :
          IF ready
          THEN /\ log' = log \o << Ev("tmp_ctor", at, m_next),
                                   Ev("await_ready", 1, m_next) >>
               /\ pc' = "resume"
               /\ UNCHANGED parked
          ELSE /\ log' = log \o << Ev("tmp_ctor", at, m_next),
                                   Ev("await_ready", 0, m_next),
                                   Ev("await_suspend", AwaitSuspendResult(Cur.k, r),
                                      NewIp(Body, at)) >>
               /\ IF suspend(Cur.k, r)
                  THEN pc' = "ret" /\ parked' = at
                  ELSE pc' = "resume" /\ UNCHANGED parked
    /\ UNCHANGED << aux, prog, st, state_live, m_eh, at, ex, inflight, m_data, started,
                    calls, args, misuse, outcome, rethrows, call >>

\* ExecAwait with ctx->m_next = ip stored only after await_suspend has returned
ExecAwaitStoresLate ==
    /\ pc = "enter" /\ Cur.op = "await"
    /\ tmp' = at
    /\ \E ready \in BOOLEAN, r \in BOOLEAN :
          IF ready
          THEN /\ log' = log \o << Ev("tmp_ctor", at, m_next),
                                   Ev("await_ready", 1, m_next) >>
               /\ pc' = "resume"
               /\ UNCHANGED << m_next, parked >>
          ELSE /\ m_next' = NewIp(Body, at)
               /\ log' = log \o << Ev("tmp_ctor", at, m_next),
                                   Ev("await_ready", 0, m_next),
                                   Ev("await_suspend", AwaitSuspendResult(Cur.k, r),
                                      m_next) >>
               /\ IF suspend(Cur.k, r)
                  THEN pc' = "ret" /\ parked' = at
                  ELSE pc' = "resume" /\ UNCHANGED parked
    /\ UNCHANGED << aux, prog, st, state_live, m_eh, at, ex, inflight, m_data, started,
                    calls, args, misuse, outcome, rethrows, call >>

\* z_COZ_AWAIT_SUSPEND: new (_coz_mem_tmp) _coz_awt_t{...}; try_suspend(...)
ExecAwait ==
    /\ pc = "enter" /\ Cur.op = "await"
    /\ tmp' = at
    /\ \E ready \in BOOLEAN, r \in BOOLEAN :
          IF ready
          THEN /\ log' = log \o << Ev("tmp_ctor", at, m_next),
                                   Ev("await_ready", 1, m_next) >>
               /\ pc' = "resume"
               /\ UNCHANGED << m_next, parked >>
          ELSE /\ m_next' = NewIp(Body, at)
               /\ log' = log \o << Ev("tmp_ctor", at, m_next),
                                   Ev("await_ready", 0, m_next),
                                   Ev("await_suspend", AwaitSuspendResult(Cur.k, r),
                                      NewIp(Body, at)) >>
               /\ IF suspend(Cur.k, r)
                  THEN pc' = "ret" /\ parked' = at
                  ELSE pc' = "resume" /\ UNCHANGED parked
    /\ UNCHANGED << aux, prog, st, state_live, m_eh, at, ex, inflight, m_data, started,
                    calls, args, misuse, outcome, rethrows, call >>

\* AwaitResume without auto_reset: a raising await_resume leaves the awaiter alive
AwaitResumeLeaks ==
    /\ pc = "resume" /\ Cur.op = "await"
    /\ \/ \E v \in 0..MaxVal :
              /\ log' = log \o << Ev("await_resume", v, m_next),
                                  Ev("tmp_dtor", at, m_next) >>
              /\ st' = [st EXCEPT !.i = v]
              /\ tmp' = 0
              /\ pc' = "enter"
              /\ at' = at + 1
              /\ UNCHANGED inflight
       \/ \E e \in Cur.errs :
              /\ log' = log \o << Ev("await_resume", 0, m_next), Ev("raise", e, m_next) >>
              /\ pc' = "catchall"
              /\ inflight' = e
              /\ UNCHANGED << st, at, tmp >>
    /\ UNCHANGED << aux, prog, state_live, m_next, m_eh, ex, m_data, started, parked,
                    calls, args, misuse, outcome, rethrows, call >>

\* case _coz_ip: i = auto_reset{...}->await_resume(): the accessor returns v or
\* raises; ~auto_reset destroys the awaiter either way
AwaitResume ==
    /\ pc = "resume" /\ Cur.op = "await"
    /\ tmp' = 0
    /\ \/ \E v \in 0..MaxVal :
              /\ log' = log \o << Ev("await_resume", v, m_next),
                                  Ev("tmp_dtor", at, m_next) >>
              /\ st' = [st EXCEPT !.i = v]
              /\ pc' = "enter"
              /\ at' = at + 1
              /\ UNCHANGED inflight
       \/ \E e \in Cur.errs :
              /\ log' = log \o << Ev("await_resume", 0, m_next),
                                  Ev("tmp_dtor", at, m_next), Ev("raise", e, m_next) >>
              /\ pc' = "catchall"
              /\ inflight' = e
              /\ UNCHANGED << st, at >>
    /\ UNCHANGED << aux, prog, state_live, m_next, m_eh, ex, m_data, started, parked,
                    calls, args, misuse, outcome, rethrows, call >>

\* YieldArg reading the token's literal even for the lvalue i
YieldArgLiteral(t, s) == t.id

\* the value COZ_YIELD / COZ_YIELD_LITE passes to yield_value
YieldArg(t, s) == IF t.k = "lv" THEN s.i ELSE t.id

\* ExecYield without the assignment m_next = _coz_ip
ExecYieldKeepsNext ==
    /\ pc = "enter" /\ Cur.op = "yield"
    /\ tmp' = at
    /\ m_data' = << YieldArg(Cur, st) >>
    /\ log' = log \o << Ev("tmp_ctor", at, m_next),
                        Ev("yield_value", YieldArg(Cur, st), m_next) >>
    /\ pc' = "ret"
    /\ parked' = at
    /\ UNCHANGED << aux, prog, st, state_live, m_next, m_eh, at, ex, inflight, started, calls,
                    args, misuse, outcome, rethrows, call >>

\* COZ_YIELD: yield_value(deref(new (_coz_mem_tmp) _coz_tmp_t{...})); m_next = _coz_ip
ExecYield ==
    /\ pc = "enter" /\ Cur.op = "yield"
    /\ tmp' = at
    /\ m_data' = << YieldArg(Cur, st) >>
    /\ m_next' = NewIp(Body, at)
    /\ log' = log \o << Ev("tmp_ctor", at, m_next),
                        Ev("yield_value", YieldArg(Cur, st), m_next) >>
    /\ pc' = "ret"
    /\ parked' = at
    /\ UNCHANGED << aux, prog, st, state_live, m_eh, at, ex, inflight, started, calls, args, misuse,
                    outcome, rethrows, call >>

\* COZ_YIELD: case _coz_ip: ~_coz_tmp_t(); break;
YieldResume ==
    /\ pc = "resume" /\ Cur.op = "yield"
    /\ log' = Append(log, Ev("tmp_dtor", at, m_next))
    /\ tmp' = 0
    /\ pc' = "enter"
    /\ at' = at + 1
    /\ UNCHANGED << aux, prog, st, state_live, m_next, m_eh, ex, inflight, m_data,
                    started, parked, calls, args, misuse, outcome, rethrows, call >>

\* COZ_YIELD_LITE: yield_value(expr); m_next = _coz_ip; goto _coz_suspend
ExecYieldLite ==
    /\ pc = "enter" /\ Cur.op = "yieldlite"
    /\ m_data' = << YieldArg(Cur, st) >>
    /\ m_next' = NewIp(Body, at)
    /\ log' = Append(log, Ev("yield_value", YieldArg(Cur, st), m_next))
    /\ pc' = "ret"
    /\ parked' = at
    /\ UNCHANGED << aux, prog, st, state_live, m_eh, at, tmp, ex, inflight, started,
                    calls, args, misuse, outcome, rethrows, call >>

\* COZ_YIELD_LITE: case _coz_ip: break;
YieldLiteResume ==
    /\ pc = "resume" /\ Cur.op = "yieldlite"
    /\ pc' = "enter"
    /\ at' = at + 1
    /\ UNCHANGED << aux, prog, st, state_live, m_next, m_eh, tmp, ex, inflight, m_data,
                    log, started, parked, calls, args, misuse, outcome, rethrows, call >>

\* Cleanup without its goto _coz_finalize: control leaves the switch instead
CleanupNoFinalize ==
    /\ pc = "cleanup"
    /\ IF Cur.op = "yieldlite"
       THEN UNCHANGED << tmp, log >>
       ELSE /\ tmp' = 0
            /\ log' = Append(log, Ev("tmp_dtor", at, m_next))
    /\ pc' = "ret"
    /\ UNCHANGED << aux, prog, st, state_live, m_next, m_eh, at, ex, inflight, m_data,
                    started, parked, calls, args, misuse, outcome, rethrows, call >>

\* z_COZ_NEW_EH: ~T(); goto _coz_finalize  (COZ_YIELD_LITE has no temporary)
Cleanup ==
    /\ pc = "cleanup"
    /\ IF Cur.op = "yieldlite"
       THEN UNCHANGED << tmp, log >>
       ELSE /\ tmp' = 0
            /\ log' = Append(log, Ev("tmp_dtor", at, m_next))
    /\ pc' = "finalize"
    /\ UNCHANGED << aux, prog, st, state_live, m_next, m_eh, at, ex, inflight, m_data,
                    started, parked, calls, args, misuse, outcome, rethrows, call >>

\* COZ_RETURN(v) taking the expansion of COZ_RETURN()
ReturnHookVoid(t, n) == Ev("return_void", 0, n)

\* explicit_return / z_COZ_RETURN0: the return hook of COZ_RETURN(...)
ReturnHook(t, n) ==
    IF t.k = "value" THEN Ev("return_value", t.id, n) ELSE Ev("return_void", 0, n)

\* COZ_RETURN(...): m_next = SENTINEL; return hook; goto _coz_finalize
ExecReturn ==
    /\ pc = "enter" /\ Cur.op = "return"
    /\ m_next' = SENTINEL
    /\ log' = Append(log, ReturnHook(Cur, SENTINEL))
    /\ pc' = "finalize"
    /\ UNCHANGED << aux, prog, st, state_live, m_eh, at, tmp, ex, inflight, m_data,
                    started, parked, calls, args, misuse, outcome, rethrows, call >>

\* ExecEnd without the assignment m_next = SENTINEL
ExecEndKeepsNext ==
    /\ pc = "enter" /\ Cur.op = "end"
    /\ log' = Append(log, Ev("return_void", 0, m_next))
    /\ pc' = "finalize"
    /\ UNCHANGED << aux, prog, st, state_live, m_next, m_eh, at, tmp, ex, inflight,
                    m_data, started, parked, calls, args, misuse, outcome, rethrows,
                    call >>

\* COZ_END: m_next = SENTINEL; implicit_return(_coz_ctx);
ExecEnd ==
    /\ pc = "enter" /\ Cur.op = "end"
    /\ m_next' = SENTINEL
    /\ log' = Append(log, Ev("return_void", 0, SENTINEL))
    /\ pc' = "finalize"
    /\ UNCHANGED << aux, prog, st, state_live, m_eh, at, tmp, ex, inflight, m_data,
                    started, parked, calls, args, misuse, outcome, rethrows, call >>

\* ~finalizer() calling the promise before it destroys the state closure
finalizerPromiseFirst(n) == << Ev("finalize", 0, n), Ev("state_dtor", 0, n) >>

\* ~finalizer(): m_state->~State(); m_promise->finalize();
finalizer(n) == << Ev("state_dtor", 0, n), Ev("finalize", 0, n) >>

\* what finalize() of the promise leaves in m_data: the promise of the lazy generator
\* resets it, the others leave it alone
finalize(d) == IF gen = "lazy" THEN << >> ELSE d

\* _coz_finalize: _coz_::finalizer{this, _coz_ctx};
Finalize ==
    /\ pc = "finalize"
    /\ log' = log \o finalizer(m_next)
    /\ state_live' = FALSE
    /\ m_data' = finalize(m_data)
    /\ pc' = "ret"
    /\ UNCHANGED << aux, prog, st, m_next, m_eh, at, tmp, ex, inflight, started,
                    parked, calls, args, misuse, outcome, rethrows, call >>

\* the catch (...) of COZ_END without its finalizer
UnhandledNoFinalizer(e, n) == << Ev("unhandled", e, n) >>

\* the hooks run by the catch (...) of COZ_END when no handler is registered
Unhandled(e, n) == << Ev("unhandled", e, n) >> \o finalizer(n)

\* COZ_END: catch (...) { m_next = m_eh; if (m_next != SENTINEL) {...; goto _coz_retry;}
\*          finalizer fin{this, _coz_ctx}; unhandled_exception(); }
CatchAll ==
    /\ pc = "catchall"
    /\ m_next' = m_eh
    /\ inflight' = 0
    /\ IF m_eh # SENTINEL
       THEN /\ ex' = inflight
            /\ pc' = "switch"
            /\ UNCHANGED << log, state_live, outcome, m_data >>
       ELSE /\ log' = log \o Unhandled(inflight, m_eh)
            /\ state_live' = FALSE
            /\ m_data' = finalize(m_data)
            /\ IF rethrows
               THEN pc' = "idle" /\ outcome' = "threw"
               ELSE pc' = "ret" /\ UNCHANGED outcome
            /\ UNCHANGED ex
    /\ UNCHANGED << aux, prog, st, m_eh, at, tmp, started, parked, calls, args, misuse,
                    rethrows, call >>

\* _coz_suspend: return ...;
Ret ==
    /\ pc = "ret"
    /\ pc' = "idle"
    /\ outcome' = "returned"
    /\ UNCHANGED << aux, prog, st, state_live, m_next, m_eh, at, tmp, ex, inflight,
                    m_data, log, started, parked, calls, args, misuse, rethrows, call >>

Next ==
    \/ Start \/ Resume \/ Destroy
    \/ Switch \/ ExecStmt \/ ExecForTest \/ ExecForInc
    \/ ExecTry \/ LeaveTry \/ Handler \/ LeaveHandler
    \/ ExecAwait \/ AwaitResume
    \/ ExecYield \/ YieldResume \/ ExecYieldLite \/ YieldLiteResume
    \/ Cleanup \/ ExecReturn \/ ExecEnd \/ Finalize \/ CatchAll \/ Ret

Spec == Init /\ [][Next]_vars

(***************************************************************************)
(* coroutine_handle.  Addresses are byte offsets from the start of the     *)
(* coroutine object, whose first base subobject is coro_state.             *)
(***************************************************************************)
\* sizeof(coro_state): unsigned m_next, m_eh
SizeofCoroState == 8

\* sizeof(coro_base): coro_state, then the two references of coro_proto
SizeofCoroBase == 24

\* coroutine* / coro_ctx* / coro_base* converted to coro_proto*
ToProto(c) == c + SizeofCoroState

\* static_cast<coroutine*>(base), static_cast<coro_base*>(m_ptr)
FromProto(q) == q - SizeofCoroState

\* coro_ctx<Promise>* converted to Promise*
ToPromise(c) == c + SizeofCoroBase

\* coroutine_handle<Promise> coroutine::handle(): return this
handle == ToProto(0)

\* Promise& coroutine::promise(): return *this
promise == ToPromise(0)

\* void* coroutine_handle::address()
address(h) == h

\* coroutine_handle::from_address(void* addr): static_cast<coro_proto*>(addr)
from_address(a) == a

\* Promise& coroutine_handle<Promise>::promise()
promise_of(h) == ToPromise(FromProto(h))

\* from_promise returning the coro_ctx address as it is
from_promise_unadjusted(a) == a - SizeofCoroBase

\* coroutine_handle::from_promise(Promise&): static_cast<coro_ctx<Promise>*>(&promise)
from_promise(a) == ToProto(a - SizeofCoroBase)

\* coro_proto as the constructor of coroutine fills it: {resume_impl, destroy_impl}
coro_proto == [m_resume |-> "resume_impl", m_destroy |-> "destroy_impl"]

\* bool coroutine_handle::done(): static_cast<coro_base*>(m_ptr)->m_next == SENTINEL
\* (a handle that does not point into the coroutine object reads no m_next)
handle_done(h) == FromProto(h) = 0 /\ m_next = SENTINEL

\* coroutine::handle()
Handle ==
    /\ pc = "idle"
    /\ handles' = handles \cup {handle}
    /\ UNCHANGED << coro, smp, regs, gen >>

\* coroutine_handle::from_address(h.address()), and copying h
FromAddress ==
    /\ pc = "idle"
    /\ \E h \in handles : handles' = handles \cup {from_address(address(h))}
    /\ UNCHANGED << coro, smp, regs, gen >>

\* coroutine_handle::from_promise of coroutine::promise() or of h.promise()
FromPromise ==
    /\ pc = "idle"
    /\ \E a \in {promise} \cup {promise_of(h) : h \in handles} :
           handles' = handles \cup {from_promise(a)}
    /\ UNCHANGED << coro, smp, regs, gen >>

\* the end of the lifetime of the handles holding one pointer
DropHandle ==
    /\ pc = "idle"
    /\ \E h \in handles : handles' = handles \ {h}
    /\ UNCHANGED << coro, smp, regs, gen >>

\* assert(this->m_next != SENTINEL) of destroy() on a done coroutine: the assertion
\* fails, or NDEBUG removed it and ++m_next wraps to 0 before m_body.invoke runs
\* operator() of a State that is not alive
DestroyDone ==
    /\ pc = "idle"
    /\ Len(calls) < MaxCalls
    /\ m_next = SENTINEL
    /\ calls' = Append(calls, "destroy")
    /\ misuse' = TRUE
    /\ call' = [kind |-> "destroy", from |-> parked, mark |-> Len(log)]
    /\ \E ndebug \in BOOLEAN :
          IF ndebug
          THEN m_next' = Advance(m_next) /\ pc' = "undefined"
          ELSE pc' = "aborted" /\ UNCHANGED m_next
    /\ UNCHANGED << aux, prog, st, state_live, m_eh, at, tmp, ex, inflight, m_data, log,
                    started, parked, args, outcome, rethrows >>

\* resume_impl / destroy_impl: static_cast<coroutine*>(base)->resume() / destroy()
Invoke(impl, base) ==
    IF FromProto(base) # 0
    THEN pc = "idle" /\ pc' = "undefined"
         /\ UNCHANGED << aux, prog, st, state_live, m_next, m_eh, at, tmp, ex, inflight,
                         m_data, log, started, parked, calls, args, misuse, outcome,
                         rethrows, call >>
    ELSE IF impl = "resume_impl" THEN Resume
    ELSE IF m_next = SENTINEL THEN DestroyDone ELSE Destroy

\* void coroutine_handle::resume(): m_ptr->m_resume(m_ptr)
HandleResume == \E h \in handles : Invoke(coro_proto.m_resume, h)

\* void coroutine_handle::destroy(): m_ptr->m_destroy(m_ptr)
HandleDestroy == \E h \in handles : Invoke(coro_proto.m_destroy, h)

ApiNext ==
    \/ Next
    \/ Handle \/ FromAddress \/ FromPromise \/ DropHandle
    \/ HandleResume \/ HandleDestroy \/ DestroyDone

\* the errors await_ready, await_suspend and yield_value can raise
HookErrs == {1, 2}

\* try_suspend: p->await_ready() throws; the awaiter stays in _coz_mem_tmp
AwaitReadyRaises ==
    /\ pc = "enter" /\ Cur.op = "await"
    /\ tmp' = at
    /\ \E e \in HookErrs :
          /\ log' = log \o << Ev("tmp_ctor", at, m_next), Ev("await_ready", 2, m_next),
                              Ev("raise", e, m_next) >>
          /\ inflight' = e
    /\ pc' = "catchall"
    /\ UNCHANGED << aux, prog, st, state_live, m_next, m_eh, at, ex, m_data, started,
                    parked, calls, args, misuse, outcome, rethrows, call >>

\* try_suspend: await_ready() is false, m_next = ip, and p->await_suspend(coro) throws
AwaitSuspendRaises ==
    /\ pc = "enter" /\ Cur.op = "await"
    /\ tmp' = at
    /\ m_next' = NewIp(Body, at)
    /\ \E e \in HookErrs :
          /\ log' = log \o << Ev("tmp_ctor", at, m_next), Ev("await_ready", 0, m_next),
                              Ev("await_suspend", 2, NewIp(Body, at)),
                              Ev("raise", e, NewIp(Body, at)) >>
          /\ inflight' = e
    /\ pc' = "catchall"
    /\ UNCHANGED << aux, prog, st, state_live, m_eh, at, ex, m_data, started, parked,
                    calls, args, misuse, outcome, rethrows, call >>

\* COZ_YIELD / COZ_YIELD_LITE: _coz_ctx->yield_value(...) throws, before m_next = _coz_ip
YieldValueRaises ==
    /\ pc = "enter" /\ Cur.op \in {"yield", "yieldlite"}
    /\ tmp' = (IF Cur.op = "yield" THEN at ELSE tmp)
    /\ \E e \in HookErrs :
          /\ log' = log
                \o (IF Cur.op = "yield" THEN << Ev("tmp_ctor", at, m_next) >> ELSE << >>)
                \o << Ev("yield_value", YieldArg(Cur, st), m_next), Ev("raise", e, m_next) >>
          /\ inflight' = e
    /\ pc' = "catchall"
    /\ UNCHANGED << aux, prog, st, state_live, m_next, m_eh, at, ex, m_data, started,
                    parked, calls, args, misuse, outcome, rethrows, call >>

HookNext == Next \/ AwaitReadyRaises \/ AwaitSuspendRaises \/ YieldValueRaises

\* the engine with awaiters and promises whose hooks may throw
HookSpec == Init /\ [][HookNext]_vars

(***************************************************************************)
(* The generator objects: the lazy one of the README and the eager one of  *)
(* example/generator.hpp.  Both promises rethrow from unhandled_exception. *)
(***************************************************************************)
\* the steps of the body between a call and its return
Engine ==
    \/ Switch \/ ExecStmt \/ ExecForTest \/ ExecForInc
    \/ ExecTry \/ LeaveTry \/ Handler \/ LeaveHandler
    \/ ExecAwait \/ AwaitResume
    \/ ExecYield \/ YieldResume \/ ExecYieldLite \/ YieldLiteResume
    \/ Cleanup \/ ExecReturn \/ ExecEnd \/ Finalize \/ CatchAll \/ Ret

\* the generator object exists: its destructor has not run
Alive == gen # "gone" /\ call.kind # "destroy"

\* the bodies a generator promise compiles with: it has return_void, no return_value
Generators ==
    {n \in 1..Len(Bodies) :
        \A k \in 1..Len(Bodies[n]) :
            ~(Bodies[n][k].op = "return" /\ Bodies[n][k].k = "value")}

\* generator_impl(Params&& params) : m_coro(...), m_params(std::move(params)) {}
LazyInit == Fresh /\ rethrows /\ gen = "lazy" /\ prog \in Generators

\* m_coro.start(std::move(m_params)): the first call moves the arguments of the
\* generator in, a later one passes m_params as the move left it (integers keep
\* their value)
LazyStart ==
    /\ Count("state_ctor") < MaxStarts
    /\ Enter("start")
    /\ \E p \in (IF started THEN {args} ELSE Params) : st' = p /\ args' = p
    /\ state_live' = TRUE
    /\ started' = TRUE
    /\ m_next' = 0
    /\ log' = Append(log, Ev("state_ctor", 0, m_next))
    /\ UNCHANGED << aux, prog, m_eh, at, tmp, ex, inflight, m_data, rethrows >>

\* iterator begin(): m_coro.done() ? m_coro.start(std::move(m_params)) : m_coro.resume()
LazyBegin ==
    /\ gen = "lazy" /\ Alive
    /\ Len(calls) < MaxDrives
    /\ IF done THEN LazyStart ELSE Resume

\* iterator::operator++ of an iterator begin() returned: m_coro->resume()
LazyIncrement ==
    /\ gen = "lazy" /\ Alive
    /\ Len(calls) < MaxDrives
    /\ started
    /\ Resume

\* ~generator_impl of the eager generator leaving a suspended coroutine alone
DtorForgets ==
    /\ gen \in {"lazy", "eager"} /\ Alive
    /\ pc = "idle"
    /\ gen' = "gone"
    /\ UNCHANGED << coro, handles, smp, regs >>

\* ~generator_impl(): if (!m_coro.done()) m_coro.destroy();
Dtor ==
    /\ gen \in {"lazy", "eager"} /\ Alive
    /\ pc = "idle"
    /\ IF done
       THEN gen' = "gone" /\ UNCHANGED << coro, handles, smp, regs >>
       ELSE Destroy

\* ~generator_impl() of the lazy generator
LazyDtor == gen = "lazy" /\ Dtor

LazyNext == Engine \/ LazyBegin \/ LazyIncrement \/ LazyDtor

\* a lazy generator and its callers
LazySpec == LazyInit /\ [][LazyNext]_vars

\* the eager generator when the mem-initializer m_coro(generator_t<T>{}) has run
EagerInit == Fresh /\ rethrows /\ gen = "eager" /\ prog \in Generators

\* start threw out of the constructor: no generator object came to exist
CtorThrew == Len(calls) = 1 /\ outcome = "threw"

\* explicit generator_impl(Params&& params) { m_coro.start(std::move(params)); }
EagerCtor == gen = "eager" /\ Start

\* iterator::operator++ of the eager generator: m_coro->resume()
EagerIncrement ==
    /\ gen = "eager" /\ Alive
    /\ started /\ ~CtorThrew
    /\ Resume

\* ~generator_impl() of the eager generator
EagerDtor == gen = "eager" /\ started /\ ~CtorThrew /\ Dtor

EagerNext == Engine \/ EagerCtor \/ EagerIncrement \/ EagerDtor

\* an eager generator and its callers
EagerSpec == EagerInit /\ [][EagerNext]_vars

\* update_size_align<_coz_state, T, _coz_ip>() at one more suspension point
Register ==
    /\ Len(regs) < MaxRegs
    /\ \E sz \in Sizes, al \in Aligns :
           /\ regs' = Append(regs, SizeAlign(sz, al))
           /\ smp' = update_size_align(smp, SizeAlign(sz, al))
    /\ UNCHANGED << coro, handles, gen >>

SolverNext == Register

\* the frame layout solver alone, over every sequence of registrations
SolverSpec == Init /\ [][SolverNext]_vars

\* the coroutine driven through the instance and through handles, by callers that
\* may also break the precondition of destroy
ApiSpec == Init /\ [][ApiNext]_vars

(***************************************************************************)
(* Properties                                                              *)
(***************************************************************************)
\* the events logged after the first m events
Since(m) == SubSeq(log, m + 1, Len(log))

Names(q) == [n \in 1..Len(q) |-> q[n].ev]

\* control is back at the caller with the body stopped at a suspension point
Suspended == pc = "idle" /\ parked # 0

\* the COZ_TRY statements whose block (not the handler) contains position p
Guard(b, p) == {j \in 1..(p - 1) : b[j].op = "try" /\ p < b[j].tgt}

\* C1: over calls that respect the preconditions (start once, no resume or destroy
\* on a coroutine that is done or has already finished), finalize is invoked at most
\* once, never while the coroutine is suspended, and exactly once by the time the
\* call that ended the coroutine (normal return, unhandled error, destroy) is back
\* at its caller.
C1_FinalizeOnce ==
    ~misuse =>
        /\ Count("finalize") <= 1
        /\ Suspended => Count("finalize") = 0
        /\ (pc = "idle" /\ started /\ parked = 0) => Count("finalize") = 1

C1_Witness ==
    /\ ~misuse /\ pc = "idle" /\ call.kind = "destroy"
    /\ Count("finalize") = 1

\* C2: done() (m_next = SENTINEL) follows the lifecycle: true before start, false
\* while the body is parked at a suspension point, true once the body has returned
\* normally and true once an error has left the body without a handler.
C2_DoneLifecycle ==
    /\ ~started => done
    /\ Suspended => ~done
    /\ (pc = "idle" /\ Count("return_void") + Count("return_value") > 0) => done
    /\ (pc = "idle" /\ Count("unhandled") > 0) => done

C2_Witness ==
    /\ pc = "idle" /\ done /\ Count("unhandled") = 1 /\ Len(calls) > 1

\* C3: once destroy() of a suspended coroutine has returned, m_next is SENTINEL and
\* done() is true.
C3_DestroyMarksDone ==
    (pc = "idle" /\ call.kind = "destroy" /\ call.from # 0) => done

\* start was called first and every later call was a resume
OnlyResumes ==
    /\ Len(calls) >= 1 /\ calls[1] = "start"
    /\ \A n \in 2..Len(calls) : calls[n] = "resume"

IsYieldValue(x) == x.ev = "yield_value"

\* the values passed to yield_value so far, in order
Yielded ==
    LET q == SelectSeq(log, IsYieldValue) IN [n \in 1..Len(q) |-> q[n].a]

Min2(x, y) == IF x <= y THEN x ELSE y

\* C4: range(i, e) with i <= e, driven by start and then k resumes, has yielded
\* i, i+1, ... in increasing order; while k < e-i the promise holds i+k and done()
\* is false, and done() is true from the entry that follows the last value on
\* (for i = e from start on, with no value).
C4_RangeSequence ==
    (Body = Range /\ pc = "idle" /\ OnlyResumes) =>
        LET k == Len(calls) - 1
            n == args.e - args.i
        IN  /\ k < n => (m_data = << args.i + k >> /\ ~done)
            /\ k >= n => done
            /\ Yielded = [j \in 1..Min2(k + 1, n) |-> args.i + j - 1]

C4_Witness ==
    /\ Body = Range /\ pc = "idle" /\ args = [i |-> 0, e |-> 3]
    /\ calls = << "start", "resume", "resume", "resume" >>
    /\ done /\ Yielded = << 0, 1, 2 >>

\* C5: a body without suspension points has a scratch frame of size 0 and
\* alignment 0, and when start is back at its caller the coroutine is done and
\* finalize has been called once.
C5_NoSuspension ==
    Suspending(Body) = {} =>
        /\ get_size_align(Body) = SizeAlign(0, 0)
        /\ (pc = "idle" /\ started) => (done /\ Count("finalize") = 1)

C5_Witness ==
    /\ Suspending(Body) = {} /\ pc = "idle" /\ calls = << "start" >>
    /\ done /\ Count("stmt") > 1

\* C6: destroy() of a coroutine suspended inside the block of a COZ_TRY destroys
\* the temporary that suspension point placed in the scratch frame, then destroys
\* the state and calls finalize once, and runs no statement and no handler.
C6_DestroyInGuard ==
    /\ (Suspended /\ Body[parked].op # "yieldlite") => tmp = parked
    /\ (pc = "idle" /\ call.kind = "destroy" /\ call.from # 0
            /\ Guard(Body, call.from) # {}) =>
        /\ Names(Since(call.mark)) =
              IF Body[call.from].op = "yieldlite"
              THEN << "state_dtor", "finalize" >>
              ELSE << "tmp_dtor", "state_dtor", "finalize" >>
        /\ Body[call.from].op # "yieldlite" => Since(call.mark)[1].at = call.from
        /\ tmp = 0

C6_Witness ==
    /\ pc = "idle" /\ call.kind = "destroy" /\ ~misuse
    /\ call.from # 0 /\ Cardinality(Guard(Body, call.from)) = 2

\* the handler position of the innermost COZ_TRY whose block contains position p
NearestCatch(b, p) == b[Max(Guard(b, p))].tgt

\* C7: an error raised inside the block of a COZ_TRY whose handler matches it is
\* caught by that handler in the same engine entry, with the coroutine not done and
\* with no finalize and no unhandled_exception in between.
C7_MatchingHandler ==
    \A n \in 1..Len(log) :
        (/\ log[n].ev = "raise"
         /\ Guard(Body, log[n].at) # {}
         /\ log[n].a \in Body[NearestCatch(Body, log[n].at)].errs) =>
            LET later == {m \in (n + 1)..Len(log) : log[m].ev # "deliver"} IN
            IF later = {}
            THEN pc \in {"catchall", "switch", "handler"}
            ELSE LET m == CHOOSE x \in later : \A y \in later : x <= y IN
                 /\ log[m].ev = "caught"
                 /\ log[m].at = NearestCatch(Body, log[n].at)
                 /\ log[m].next # SENTINEL

\* C8: an error raised in a body without any COZ_TRY makes the coroutine done,
\* runs the finalizer once and unhandled_exception once with that error, and with
\* a rethrowing hook the call in progress ends by throwing.
C8_NoHandler ==
    (\A j \in 1..Len(Body) : Body[j].op # "try") =>
        \A n \in 1..Len(log) : log[n].ev = "raise" =>
            IF n = Len(log)
            THEN pc = "catchall" /\ inflight = log[n].a
            ELSE /\ Names(Since(n)) = << "unhandled", "state_dtor", "finalize" >>
                 /\ log[n + 1].a = log[n].a
                 /\ done
                 /\ ~misuse => (Count("finalize") = 1 /\ Count("unhandled") = 1)
                 /\ (rethrows /\ call.mark < n) => (pc = "idle" /\ outcome = "threw")

C8_Witness ==
    /\ \A j \in 1..Len(Body) : Body[j].op # "try"
    /\ Count("raise") = 1 /\ rethrows /\ pc = "idle" /\ outcome = "threw"
    /\ calls = << "start", "resume" >>

\* C9: an error raised at any point of the body goes to the handler of the
\* innermost COZ_TRY whose block contains that point, and to unhandled_exception
\* when no block contains it.
C9_NearestHandler ==
    \A n \in 1..(Len(log) - 1) : log[n].ev = "raise" =>
        IF Guard(Body, log[n].at) # {}
        THEN /\ log[n + 1].ev = "deliver"
             /\ log[n + 1].at = NearestCatch(Body, log[n].at)
             /\ log[n + 1].a = log[n].a
        ELSE /\ log[n + 1].ev = "unhandled"
             /\ log[n + 1].a = log[n].a

\* C10: right after COZ_TRY is entered m_eh is that region's handler ordinal, and
\* right after the whole COZ_TRY ... COZ_CATCH statement m_eh is again the value
\* from before the region (SENTINEL for an outermost region).
C10_RegionEh ==
    /\ (pc = "enter" /\ at > 1 /\ Body[at - 1].op = "try") =>
           m_eh = NewIp(Body, at - 1)
    /\ (pc = "enter" /\ at > 1 /\ Body[at - 1].op = "endcatch") =>
           \A j \in 1..Len(Body) :
               (Body[j].op = "try" /\ Body[Body[j].tgt].tgt = at - 1) =>
                   m_eh = PrevEh(Body, j)

\* the COZ_TRY statements whose handler (catch token to closing brace) contains p
HandlerAt(b, p) ==
    {j \in 1..Len(b) : b[j].op = "try" /\ b[j].tgt <= p /\ p <= b[b[j].tgt].tgt}

\* log entry n is an error leaving a handler: delivered to it and matched by none of
\* its clauses, or raised by a statement of the handler
Escapes(n) ==
    \/ log[n].ev = "deliver" /\ log[n].a \notin Body[log[n].at].errs
    \/ log[n].ev = "raise" /\ HandlerAt(Body, log[n].at) # {}

\* C11: while control is in a region's handler m_eh is the handler ordinal of the
\* lexically enclosing region (SENTINEL when there is none), and an error the
\* handler does not match, or one raised by a statement of the handler, goes next
\* to the enclosing region's handler, or to unhandled_exception when no region
\* encloses it.
C11_HandlerChain ==
    /\ \A j \in HandlerAt(Body, at) :
           (\/ pc = "catchall"
            \/ pc = "enter" /\ at > Body[j].tgt) => m_eh = CurrEh(Body, j)
    /\ \A n \in 1..(Len(log) - 1) : Escapes(n) =>
           LET j == CHOOSE x \in HandlerAt(Body, log[n].at) : TRUE IN
           /\ log[n + 1].a = log[n].a
           /\ IF Enclosing(Body, j) = {}
              THEN log[n + 1].ev = "unhandled"
              ELSE /\ log[n + 1].ev = "deliver"
                   /\ log[n + 1].at = Body[Max(Enclosing(Body, j))].tgt

C11_Witness ==
    \E n \in 1..(Len(log) - 2) :
        /\ log[n].ev = "raise" /\ HandlerAt(Body, log[n].at) # {}
        /\ log[n + 1].ev = "deliver" /\ log[n + 2].ev = "caught"
        /\ m_eh = SENTINEL

\* the log entries of the temporaries constructed by COZ_AWAIT
AwaitCtors == {n \in 1..Len(log) : log[n].ev = "tmp_ctor" /\ Body[log[n].at].op = "await"}

\* C12: every COZ_AWAIT asks await_ready exactly once, right after it has built the
\* awaiter; when the answer is true await_suspend is not called, m_next keeps its
\* value and the body goes on to await_resume before control is back at the caller;
\* await_suspend is called only right after an await_ready that answered false.
C12_ReadyOnce ==
    /\ Count("await_ready") = Cardinality(AwaitCtors)
    /\ \A n \in 1..Len(log) :
        /\ log[n].ev = "await_ready" =>
              /\ n - 1 \in AwaitCtors /\ log[n - 1].at = log[n].at
              /\ IF log[n].a = 1
                 THEN IF n = Len(log)
                      THEN pc = "resume" /\ at = log[n].at /\ m_next = log[n].next
                           /\ parked = 0
                      ELSE /\ log[n + 1].ev = "await_resume"
                           /\ log[n + 1].at = log[n].at
                           /\ log[n + 1].next = log[n].next
                 ELSE n < Len(log) /\ log[n + 1].ev = "await_suspend"
        /\ log[n].ev = "await_suspend" =>
              n > 1 /\ log[n - 1].ev = "await_ready" /\ log[n - 1].a = 0
    /\ (pc \in {"idle", "ret"} /\ log # << >>) => log[Len(log)].ev # "await_ready"

C12_Witness ==
    /\ pc = "idle" /\ ~misuse
    /\ \E n \in 1..(Len(log) - 1), m \in 1..(Len(log) - 1) :
        /\ log[n].ev = "await_ready" /\ log[n].a = 1 /\ log[n + 1].ev = "await_resume"
        /\ log[m].ev = "await_ready" /\ log[m].a = 0 /\ log[m + 1].ev = "await_suspend"

\* the log index at which the await that built its awaiter at entry n goes on:
\* after await_ready when that answered true, after await_suspend otherwise
GoesOn(n) == IF log[n + 1].a = 1 THEN n + 2 ELSE n + 3

\* C13: over calls that respect the preconditions, every COZ_AWAIT that goes on
\* calls await_resume exactly once, the body holds the value it returned, and the
\* awaiter in the scratch frame is destroyed right after it, also when it raises;
\* after an await_suspend that suspended the coroutine, await_resume is called only
\* in a later resume (a destroy destroys the awaiter without calling it).
C13_ResumeAccessor ==
    ~misuse =>
        /\ \A n \in AwaitCtors :
              LET k == GoesOn(n) IN
              IF k > Len(log)
              THEN tmp = log[n].at
              ELSE /\ log[k].at = log[n].at
                   /\ log[k].ev \in {"await_resume", "tmp_dtor"}
                   /\ log[k].ev = "await_resume" =>
                         /\ k < Len(log)
                         /\ log[k + 1].ev = "tmp_dtor" /\ log[k + 1].at = log[n].at
        /\ \A k \in 1..Len(log) : log[k].ev = "await_resume" =>
              \E n \in AwaitCtors : GoesOn(n) = k
        /\ (log # << >> /\ log[Len(log)].ev = "await_suspend" /\ log[Len(log)].a # 0) =>
              /\ pc \in {"ret", "idle", "switch", "resume", "cleanup"}
              /\ pc = "resume" => (call.kind = "resume" /\ call.mark = Len(log))
              /\ pc = "cleanup" => (call.kind = "destroy" /\ call.mark = Len(log))
        /\ (/\ pc = "enter" /\ Len(log) >= 2
            /\ log[Len(log) - 1].ev = "await_resume"
            /\ log[Len(log)].ev = "tmp_dtor") =>
              (st.i = log[Len(log) - 1].a /\ at = log[Len(log)].at + 1)

C13_Witness ==
    /\ pc = "idle" /\ tmp = 0 /\ ~misuse
    /\ \E k \in 1..(Len(log) - 3) :
        /\ log[k].ev = "await_suspend" /\ log[k].a # 0
        /\ log[k + 1].ev = "await_resume"
        /\ log[k + 2].ev = "tmp_dtor"
        /\ log[k + 3].ev = "raise"
    /\ \E k \in 1..Len(log) : log[k].ev = "await_resume" /\ log[k].a = MaxVal

\* C14: after an await_ready that answered false, an await_suspend that returns
\* false keeps control in the body, which goes on to await_resume in the same engine
\* entry; one that returns true or returns nothing hands control back to the caller
\* with the coroutine parked at that await, and nothing of the body runs before the
\* next resume or destroy.
C14_ConditionalSuspend ==
    /\ \A n \in 1..Len(log) : log[n].ev = "await_suspend" =>
          log[n].a = (IF Body[log[n].at].k = "void" THEN 2 ELSE log[n].a % 2)
    /\ (log # << >> /\ log[Len(log)].ev = "await_suspend") =>
          LET s == log[Len(log)] IN
          IF s.a = 0
          THEN pc = "resume" /\ at = s.at /\ parked = 0 /\ call.mark < Len(log)
          ELSE \/ pc \in {"ret", "idle"} /\ parked = s.at /\ call.mark < Len(log)
               \/ /\ pc \in {"switch", "resume", "cleanup"}
                  /\ call.kind \in {"resume", "destroy"}
                  /\ call.from = s.at /\ call.mark = Len(log)
    /\ \A n \in 1..(Len(log) - 1) :
          (log[n].ev = "await_suspend" /\ log[n].a = 0) =>
              (log[n + 1].ev = "await_resume" /\ log[n + 1].at = log[n].at)

C14_Witness ==
    /\ pc = "idle" /\ parked # 0 /\ Body[parked].op = "await" /\ Body[parked].k = "void"
    /\ \E n \in 1..(Len(log) - 1) :
          /\ log[n].ev = "await_suspend" /\ log[n].a = 0
          /\ log[n + 1].ev = "await_resume" /\ call.mark < n

\* C15: COZ_YIELD and COZ_YIELD_LITE call yield_value once with the value, ask no
\* await_ready and no await_suspend, and always hand control back to the caller
\* with the coroutine parked at that yield, not done, m_next at the yield's resume
\* label and the promise holding the value; what follows the yield runs only in a
\* later call.
C15_YieldSuspends ==
    /\ \A n \in 1..Len(log) : log[n].ev = "yield_value" =>
          /\ Body[log[n].at].op \in {"yield", "yieldlite"}
          /\ log[n].a = (IF Body[log[n].at].k = "lv" THEN log[n].a ELSE Body[log[n].at].id)
          /\ Body[log[n].at].op = "yield" =>
                (n > 1 /\ log[n - 1].ev = "tmp_ctor" /\ log[n - 1].at = log[n].at)
          /\ n < Len(log) =>
                /\ log[n + 1].ev \notin {"yield_value", "await_ready", "await_suspend"}
                /\ Body[log[n].at].op = "yield" =>
                      (log[n + 1].ev = "tmp_dtor" /\ log[n + 1].at = log[n].at)
    /\ \A n \in 1..Len(log) :
          (log[n].ev = "tmp_ctor" /\ Body[log[n].at].op = "yield") =>
              (n < Len(log) /\ log[n + 1].ev = "yield_value")
    /\ (log # << >> /\ log[Len(log)].ev = "yield_value") =>
          LET y == log[Len(log)] IN
          \/ /\ pc \in {"ret", "idle"} /\ parked = y.at /\ call.mark < Len(log)
             /\ ~done /\ m_next = NewIp(Body, y.at) /\ m_data = << y.a >>
          \/ /\ pc \in {"switch", "resume", "cleanup", "enter", "finalize"}
             /\ call.kind \in {"resume", "destroy"}
             /\ call.from = y.at /\ call.mark = Len(log)

C15_Witness ==
    /\ pc = "idle" /\ call.kind = "resume" /\ ~misuse
    /\ \E n \in 1..(Len(log) - 1) :
          /\ log[n].ev = "yield_value" /\ Body[log[n].at].op = "yieldlite"
          /\ log[n + 1].ev = "stmt" /\ call.mark = n

HandlesAgree ==
    \A h \in handles :
        /\ FromProto(h) = 0
        /\ handle_done(h) <=> done
        /\ promise_of(h) = promise

HandleStepsAgree ==
    /\ HandleResume => Resume
    /\ HandleDestroy => (Destroy \/ DestroyDone)
    /\ (Handle \/ FromAddress \/ FromPromise \/ DropHandle) => UNCHANGED coro

C18_ReturnValue ==
    ~misuse =>
        /\ Count("return_value") + Count("return_void") <= 1
        /\ \A n \in 1..Len(log) :
              /\ log[n].ev = "return_value" => Body[log[n].at] = Return(log[n].a)
              /\ log[n].ev = "return_void" => Body[log[n].at] \in {ReturnVoid, End}
        /\ (pc \in {"finalize", "ret", "idle"} /\ at > 0 /\ Cur.op = "return") =>
              /\ Count("return_value") = (IF Cur.k = "value" THEN 1 ELSE 0)
              /\ Count("return_void") = (IF Cur.k = "value" THEN 0 ELSE 1)

C18_Witness ==
    /\ ~misuse /\ pc = "idle" /\ done /\ Body = Plain
    /\ calls = << "start", "resume", "resume", "resume" >>
    /\ \E n \in 1..Len(log) : log[n].ev = "return_value" /\ log[n].a = Plain[Len(Plain)].id

\* the solver states after registering q[1], ..., q[n] in that order
RECURSIVE Replay(_, _)
Replay(q, n) ==
    IF n = 0 THEN << SizeAlign(0, 0) >> ELSE update_size_align(Replay(q, n - 1), q[n])

Reverse(q) == [n \in 1..Len(q) |-> q[Len(q) + 1 - n]]

\* C19: after any sequence of registrations the solver's result is (largest size,
\* largest alignment) of what was registered, (0, 0) when nothing was; each stored
\* state is at least the one before it in both components; registering one of the
\* registered values again, or the same values in reverse order, gives the same
\* result.
C19_SolverMax ==
    LET final == load_size_align(smp) IN
    /\ Len(smp) = Len(regs) + 1
    /\ final = SizeAlign(Max({0} \cup {regs[n].size : n \in 1..Len(regs)}),
                         Max({0} \cup {regs[n].align : n \in 1..Len(regs)}))
    /\ \A k \in 1..(Len(smp) - 1) :
          smp[k + 1].size >= smp[k].size /\ smp[k + 1].align >= smp[k].align
    /\ \A n \in 1..Len(regs) : load_size_align(update_size_align(smp, regs[n])) = final
    /\ load_size_align(Replay(Reverse(regs), Len(regs))) = final

C19_Witness ==
    /\ Len(regs) = MaxRegs
    /\ regs[1] = SizeAlign(16, 1) /\ regs[2] = SizeAlign(1, 8) /\ regs[3] = regs[1]
    /\ load_size_align(smp) = SizeAlign(16, 8)

\* C20: when the body returns (COZ_RETURN or the end of the body) the return hook
\* runs while m_next is not yet SENTINEL, and m_next is SENTINEL by the time the
\* state is destroyed and finalize is called, which happens right after the hook.
C20_ReturnOrder ==
    \A n \in 1..Len(log) : log[n].ev \in {"return_value", "return_void"} =>
        /\ log[n].next # SENTINEL
        /\ n + 2 <= Len(log) =>
              /\ log[n + 1].ev = "state_dtor"
              /\ log[n + 2].ev = "finalize" /\ log[n + 2].next = SENTINEL

\* C21: when an error leaves the body with no handler registered, m_next is SENTINEL
\* and the state has been destroyed and finalize called by the time
\* unhandled_exception is invoked.
C21_FinalizeBeforeUnhandled ==
    \A n \in 1..Len(log) : log[n].ev = "unhandled" =>
        /\ log[n].next = SENTINEL
        /\ n > 2 /\ log[n - 2].ev = "state_dtor" /\ log[n - 1].ev = "finalize"

\* C22: whenever await_suspend is invoked m_next already is the resume ordinal of
\* that await: it is not SENTINEL, so the handle given to await_suspend reports
\* done() false, and the switch maps it to the continuation right after the await.
C22_NextBeforeSuspend ==
    \A n \in 1..Len(log) : log[n].ev = "await_suspend" =>
        /\ log[n].next = NewIp(Body, log[n].at)
        /\ log[n].next # SENTINEL
        /\ Dispatch(Body, log[n].next) = [lbl |-> "resume", at |-> log[n].at]

C22_Witness ==
    /\ pc = "idle" /\ parked # 0 /\ Guard(Body, parked) # {}
    /\ Body[parked].op = "await"
    /\ log[Len(log)].ev = "await_suspend" /\ log[Len(log)].at = parked
    /\ m_next = log[Len(log)].next

\* the temporaries alive in the scratch frame after the first n log entries
Live(n) ==
    Cardinality({k \in 1..n : log[k].ev = "tmp_ctor"})
        - Cardinality({k \in 1..n : log[k].ev = "tmp_dtor"})

\* C23: over calls that respect the preconditions, the scratch frame holds at most
\* one temporary at any time, a temporary is constructed only into an empty frame
\* and right before its await_ready or yield_value, it is destroyed by the event
\* that follows its resumption or by destroy, and none is alive once the
\* coroutine has finished; also when await_ready, await_suspend or yield_value
\* raises.
C23_OneOccupant ==
    ~misuse =>
        /\ \A n \in 1..Len(log) :
              /\ Live(n) \in {0, 1}
              /\ log[n].ev = "tmp_ctor" =>
                    /\ Live(n - 1) = 0
                    /\ n < Len(log)
                    /\ log[n + 1].ev \in {"await_ready", "yield_value"}
                    /\ log[n + 1].at = log[n].at
              /\ log[n].ev = "tmp_dtor" => Live(n - 1) = 1
        /\ Live(Len(log)) = (IF tmp = 0 THEN 0 ELSE 1)
        /\ (pc = "idle" /\ started /\ parked = 0) => Live(Len(log)) = 0


\* the ordinals that are not the resume label of a suspension point
NotResumeOrdinals(b) ==
    {0} \cup {NewEh(b, k) : k \in Suspending(b)}
        \cup {NewIp(b, j) : j \in {i \in 1..Len(b) : b[i].op = "try"}}

\* m_next as a returned start or resume leaves it
ReturnedAtPoint ==
    \/ m_next = SENTINEL /\ parked = 0
    \/ /\ parked \in Suspending(Body)
       /\ m_next = NewIp(Body, parked)
       /\ m_next \notin NotResumeOrdinals(Body)

\* from a call of resume on a suspended coroutine up to the statement after the point
ResumeContinues ==
    /\ (pc = "idle" /\ calls' # calls /\ calls'[Len(calls')] = "resume" /\ ~misuse')
          => (st' = st /\ m_next' = m_next /\ m_eh' = m_eh /\ tmp' = tmp /\ log' = log)
    /\ (pc = "switch" /\ call.kind = "resume" /\ ~misuse /\ Len(log) = call.mark)
          => (pc' = "resume" /\ at' = call.from /\ st' = st /\ log' = log)
    /\ (pc = "resume" /\ call.kind = "resume" /\ ~misuse /\ Len(log) = call.mark)
          => \/ pc' = "enter" /\ at' = at + 1
                /\ (Cur.op # "await" => st' = st)
             \/ pc' = "catchall" /\ Cur.op = "await"

\* C24: whenever start or resume has returned, m_next is SENTINEL or the resume ordinal
\* of the suspension point the body stopped at, never 0 nor a handler or cleanup
\* ordinal; nothing of the coroutine changes while control is at the caller; and the
\* next resume continues at that point's resume label with the state closure as it was
\* left, going on with the statement that follows the point.
C24_ReturnsAtPoint ==
    /\ [](pc = "idle" /\ call.kind \in {"start", "resume"} /\ ~misuse => ReturnedAtPoint)
    /\ [][ResumeContinues]_vars

C24_Witness ==
    /\ pc = "idle" /\ call.kind = "resume" /\ ~misuse
    /\ call.from \in Suspending(Body)
    /\ parked \in Suspending(Body) /\ parked # call.from
    /\ m_next = NewIp(Body, parked)


\* the ordinal after the resume ordinal of point k selects the cleanup label of k only
CleanupFollows(b) ==
    \A k \in Suspending(b) :
        /\ Dispatch(b, NewIp(b, k) + 1) = [lbl |-> "cleanup", at |-> k]
        /\ \A j \in 1..Len(b) :
              b[j].op \in {"await", "yield", "yieldlite", "try"}
                  => NewIp(b, j) # NewIp(b, k) + 1

\* what a destroy of a coroutine suspended at call.from has run when it is back
DestroyedAtPoint ==
    /\ Names(Since(call.mark)) =
          IF Body[call.from].op = "yieldlite"
          THEN << "state_dtor", "finalize" >>
          ELSE << "tmp_dtor", "state_dtor", "finalize" >>
    /\ Body[call.from].op # "yieldlite" =>
          /\ Since(call.mark)[1].at = call.from
          /\ log[Max({n \in 1..call.mark : log[n].ev = "tmp_ctor"})].at = call.from
    /\ tmp = 0
    /\ m_next = NewIp(Body, call.from) + 1

\* the steps of a destroy of a suspended coroutine
DestroySteps ==
    /\ (pc = "idle" /\ calls' # calls /\ calls'[Len(calls')] = "destroy")
          => m_next' = m_next + 1
    /\ (call.kind = "destroy" /\ call.from # 0 /\ pc = "switch")
          => (pc' = "cleanup" /\ at' = call.from)
    /\ (call.kind = "destroy" /\ call.from # 0 /\ Len(log') > Len(log))
          => log'[Len(log')].ev \in {"tmp_dtor", "finalize"}

\* C25: destroy advances m_next by exactly one; for every suspension point with
\* resume ordinal p, the ordinal p + 1 is the cleanup label of that same point and is
\* neither a resume ordinal nor a handler ordinal; a destroy of a coroutine suspended
\* at p destroys exactly the scratch occupant constructed at p (none for
\* COZ_YIELD_LITE), then the state closure, then finalizes, and runs no statement of
\* the body.
C25_DestroyCleanup ==
    /\ [](/\ \A n \in 1..Len(Bodies) : CleanupFollows(Bodies[n])
          /\ (pc = "idle" /\ call.kind = "destroy" /\ call.from # 0) => DestroyedAtPoint)
    /\ [][DestroySteps]_vars

C25_Witness ==
    /\ pc = "idle" /\ call.kind = "destroy" /\ call.from # 0
    /\ Body[call.from].op = "await"
    /\ \E n \in 1..call.mark : log[n].ev = "tmp_dtor"
    /\ Names(Since(call.mark)) = << "tmp_dtor", "state_dtor", "finalize" >>


\* _coz_ex is filled only by the catch (...) and emptied only by a handler's release()
CarrierSteps ==
    /\ (ex = 0 /\ ex' # 0) => (pc = "catchall" /\ m_eh # SENTINEL /\ ex' = inflight)
    /\ (ex # 0 /\ ex' # ex) => (pc = "handler" /\ ex' = 0)
    /\ (ex # 0 /\ pc = "switch") => (pc' = "handler" /\ ex' = ex)

\* C26: over calls that respect the preconditions, the exception carrier holds at most
\* one error and is occupied only from the engine's catch of an error while a handler
\* is registered up to the entry of that handler; it is empty whenever the coroutine is
\* suspended, done, or control is at the caller, it is never filled while occupied, and
\* a handler never takes an error out of an empty carrier.
C26_Carrier ==
    /\ [](~misuse =>
            /\ ex # 0 => /\ pc \in {"switch", "handler"}
                         /\ m_next = m_eh /\ m_eh # SENTINEL
                         /\ Dispatch(Body, m_next).lbl = "handler"
            /\ pc \in {"idle", "ret", "finalize", "cleanup", "resume", "enter"} => ex = 0
            /\ pc = "catchall" => (ex = 0 /\ inflight # 0)
            /\ pc = "handler" => ex # 0
            /\ pc # "undefined")
    /\ [][~misuse => CarrierSteps]_vars

C26_Witness ==
    /\ ~misuse /\ pc = "enter" /\ ex = 0
    /\ Len(log) > 0 /\ log[Len(log)].ev = "caught"
    /\ call.kind = "resume"


\* what a resume of a done coroutine may not touch
Untouched ==
    UNCHANGED << m_next, m_eh, log, st, state_live, tmp, ex, m_data, parked, started >>

\* the steps of resume() from its call on a done coroutine to its return
ResumeOnDoneSteps ==
    /\ (pc = "idle" /\ started /\ done /\ calls' # calls /\ calls'[Len(calls')] = "resume")
          => (pc' = "switch" /\ Untouched)
    /\ (pc = "switch" /\ call.kind = "resume" /\ done)
          => (pc' = "ret" /\ Untouched)
    /\ (pc = "ret" /\ call.kind = "resume" /\ done /\ Len(log) = call.mark)
          => (pc' = "idle" /\ outcome' = "returned" /\ Untouched)

\* C27: resume() on a coroutine that is done, having completed normally or by an
\* unhandled error, runs nothing: from the call to its return no statement and no hook
\* is run, m_next and m_eh keep their values and done() stays true.
C27_ResumeOnDone ==
    /\ [](pc = "switch" /\ call.kind = "resume" /\ done => Len(log) = call.mark)
    /\ [][ResumeOnDoneSteps]_vars

C27_Witness ==
    /\ pc = "idle" /\ call.kind = "resume" /\ call.from = 0 /\ outcome = "returned"
    /\ Len(log) = call.mark /\ Len(log) > 0
    /\ log[Len(log)].ev = "finalize"
    /\ \E n \in 1..Len(log) : log[n].ev = "unhandled"
    /\ done


\* C28: the lazy generator never breaks the start-once contract: over any sequence of
\* begin() calls and iterator increments, begin() after the generator is drained
\* included, start is invoked at most once, the body is never run a second time and
\* finalize is never run twice.
C28_StartOnce ==
    /\ Cardinality({n \in 1..Len(calls) : calls[n] = "start"}) <= 1
    /\ Count("state_ctor") <= 1
    /\ Count("finalize") <= 1


\* the destructor of the generator has run and is back at its caller
Destructed == pc = "idle" /\ (gen = "gone" \/ call.kind = "destroy")

\* the destructor calls destroy exactly when the coroutine is not done
DtorSteps ==
    /\ (Alive /\ ~Alive') =>
          IF done
          THEN calls' = calls /\ log' = log /\ pc' = "idle"
          ELSE calls' = Append(calls, "destroy") /\ m_next' = m_next + 1
    /\ (calls' # calls /\ calls'[Len(calls')] = "destroy") => (~done /\ parked # 0)

C30_StateDestroyedOnce ==
    ~misuse =>
        /\ Count("state_dtor") <= 1
        /\ \A n \in 1..Len(log) :
              /\ log[n].ev = "state_dtor" =>
                    /\ n < Len(log) /\ log[n + 1].ev = "finalize"
                    /\ \E m \in 1..(n - 1) : log[m].ev = "state_ctor"
              /\ log[n].ev = "finalize" => (n > 1 /\ log[n - 1].ev = "state_dtor")
        /\ state_live = (started /\ Count("state_dtor") = 0)
        /\ Suspended => (state_live /\ Count("state_dtor") = 0)
        /\ (pc = "idle" /\ started /\ parked = 0) =>
              (Count("state_dtor") = 1 /\ Count("finalize") = 1 /\ ~state_live)

C30_Witness ==
    /\ ~misuse /\ pc = "idle" /\ call.kind = "resume" /\ call.from # 0 /\ parked = 0
    /\ Count("state_dtor") = 1
    /\ Names(Since(Len(log) - 3)) = << "return_void", "state_dtor", "finalize" >>

====
